---- MODULE Spec2Model ----
(***************************************************************************)
(* A model of the Python-facing query-building layer of                    *)
(* arrow-ballista-python: the DataFrame plan builder (src/dataframe.rs)    *)
(* and the expression constructors (src/functions.rs).                     *)
(*                                                                         *)
(* The query engine (datafusion) and the host runtime (pyo3) are external  *)
(* collaborators.  They appear as operators named Engine... / Extract...   *)
(* whose outcome is a Result value; the wrappers of this repository are    *)
(* translated statement by statement on top of them.                       *)
(***************************************************************************)
EXTENDS Integers, Sequences, FiniteSets, TLC

VARIABLES
    dfs,      \* the PyDataFrame objects alive on the host side: a sequence of [df |-> plan]
    last,     \* the most recent completed call: its arguments, engine invocations and result
    th        \* per host thread: the state of its collect / show / explain call

vars == <<dfs, last, th>>

----------------------------------------------------------------------------
(* Bounds of the model *)

\* the number of PyDataFrame objects the host keeps alive
MaxDfs == 3
\* the largest row count passed to limit and show
MaxCount == 2
\* the longest tuple or list used as an index key
MaxKeyLen == 2
\* the longest argument list passed to a function of the functions module
MaxArgs == 2
\* the number of rows the engine puts in one record batch
BatchRows == 12
\* the number of PyDataFrame objects alive when two threads share them: a
\* table, a DataFrame derived from it and a DataFrame derived from either
MaxChain == 3

----------------------------------------------------------------------------
(* Result and Option values *)

Ok(v) == [ok |-> TRUE, val |-> v]
Err(e) == [ok |-> FALSE, err |-> e]
None == <<>>
Some(v) == <<v>>

Range(s) == {s[i] : i \in DOMAIN s}

RECURSIVE SeqsUpTo(_, _)
SeqsUpTo(S, n) ==
    IF n = 0 THEN {<<>>}
    ELSE LET shorter == SeqsUpTo(S, n - 1)
         IN  shorter \cup {Append(s, x) : s \in {q \in shorter : Len(q) = n - 1}, x \in S}

Min(a, b) == IF a < b THEN a ELSE b

----------------------------------------------------------------------------
(* The engine's expression tree (datafusion_expr::Expr), as far as this    *)
(* layer builds it.                                                        *)

Col(n) == [e |-> "Column", name |-> n]
Lit(v) == [e |-> "Literal", value |-> v]
Gt(l, r) == [e |-> "BinaryExpr", left |-> l, op |-> "Gt", right |-> r]

RECURSIVE ExprCols(_)
RECURSIVE ExprColsOfSeq(_)
\* the column names an expression refers to
ExprCols(x) ==
    CASE x.e = "Column" -> {x.name}
      [] x.e = "Literal" -> {}
      [] x.e = "BinaryExpr" -> ExprCols(x.left) \cup ExprCols(x.right)
      [] x.e = "Sort" -> ExprCols(x.expr)
      [] x.e = "Alias" -> ExprCols(x.expr)
      [] x.e = "ScalarFunction" -> ExprColsOfSeq(x.args)
      [] x.e = "AggregateFunction" -> ExprColsOfSeq(x.args)
      [] x.e = "WindowFunction" ->
            ExprColsOfSeq(x.args) \cup ExprColsOfSeq(x.partition_by) \cup ExprColsOfSeq(x.order_by)
      [] OTHER -> {}
ExprColsOfSeq(xs) ==
    IF xs = <<>> THEN {} ELSE ExprCols(Head(xs)) \cup ExprColsOfSeq(Tail(xs))

----------------------------------------------------------------------------
(* The engine's logical plans and DataFrame primitives.  A DataFrame value *)
(* is its logical plan; every primitive consumes a DataFrame value and     *)
(* returns a Result holding a new one.                                     *)

\* the registered tables: name -> [schema, rows]; a row is named by its id
Tables == {"t1", "t2"}
TableSchema(t) == <<"id", "name">>
TableRows(t) == IF t = "t1" THEN <<1, 2, 3>> ELSE [i \in 1..22 |-> i + 1]

TableScan(t) == [op |-> "TableScan", table |-> t]

RECURSIVE Schema(_)
\* the column names of a plan's output, derived from the plan on demand
Schema(p) ==
    CASE p.op = "TableScan" -> TableSchema(p.table)
      [] p.op = "Projection" -> [i \in DOMAIN p.exprs |->
                                    IF p.exprs[i].e = "Column" THEN p.exprs[i].name ELSE "expr"]
      [] p.op = "WithColumn" -> SelectSeq(Schema(p.input), LAMBDA c : c # p.name) \o <<p.name>>
      [] p.op = "Aggregate" -> [i \in 1..(Len(p.group) + Len(p.aggs)) |->
                                    IF i <= Len(p.group) /\ p.group[i].e = "Column"
                                    THEN p.group[i].name ELSE "agg"]
      [] p.op = "Join" ->
            IF p.type \in {"LeftSemi", "LeftAnti"} THEN Schema(p.left)
            ELSE IF p.type = "RightSemi" THEN Schema(p.right)
            ELSE Schema(p.left) \o Schema(p.right)
      [] p.op = "Explain" -> <<"plan_type", "plan">>
      [] OTHER -> Schema(p.input)

EngineError(what) == [kind |-> "ExecutionError", msg |-> <<"Schema error: ", what>>]

Resolves(xs, p) == ExprColsOfSeq(xs) \subseteq Range(Schema(p))

\* DataFrame::select
EngineSelect(df, exprs) ==
    IF Resolves(exprs, df)
    THEN Ok([op |-> "Projection", exprs |-> exprs, input |-> df])
    ELSE Err(EngineError("select"))

\* DataFrame::select_columns: one column reference per name, in order
EngineSelectColumns(df, names) ==
    EngineSelect(df, [i \in DOMAIN names |-> Col(names[i])])

\* DataFrame::filter
EngineFilter(df, predicate) ==
    IF Resolves(<<predicate>>, df)
    THEN Ok([op |-> "Filter", pred |-> predicate, input |-> df])
    ELSE Err(EngineError("filter"))

\* DataFrame::with_column
EngineWithColumn(df, name, expr) ==
    IF Resolves(<<expr>>, df)
    THEN Ok([op |-> "WithColumn", name |-> name, expr |-> expr, input |-> df])
    ELSE Err(EngineError("with_column"))

\* DataFrame::aggregate
EngineAggregate(df, group_by, aggs) ==
    IF Resolves(group_by \o aggs, df)
    THEN Ok([op |-> "Aggregate", group |-> group_by, aggs |-> aggs, input |-> df])
    ELSE Err(EngineError("aggregate"))

\* DataFrame::sort
EngineSort(df, exprs) ==
    IF Resolves(exprs, df)
    THEN Ok([op |-> "Sort", exprs |-> exprs, input |-> df])
    ELSE Err(EngineError("sort"))

\* DataFrame::limit(skip, fetch): fetch is an Option
EngineLimit(df, skip, fetch) ==
    Ok([op |-> "Limit", skip |-> skip, fetch |-> fetch, input |-> df])

\* DataFrame::join(right, join_type, left_cols, right_cols, filter)
EngineJoin(df, right, join_type, left_cols, right_cols, filter) ==
    IF /\ Len(left_cols) = Len(right_cols)
       /\ Range(left_cols) \subseteq Range(Schema(df))
       /\ Range(right_cols) \subseteq Range(Schema(right))
    THEN Ok([op |-> "Join", left |-> df, right |-> right, type |-> join_type,
             lkeys |-> left_cols, rkeys |-> right_cols, filter |-> filter])
    ELSE Err(EngineError("join"))

\* DataFrame::explain
EngineExplain(df, verbose, analyze) ==
    Ok([op |-> "Explain", verbose |-> verbose, analyze |-> analyze, input |-> df])

RECURSIVE SortAsc(_)
SortAsc(S) ==
    IF S = {} THEN <<>>
    ELSE LET m == CHOOSE x \in S : \A y \in S : x <= y
         IN  <<m>> \o SortAsc(S \ {m})

Reverse(s) == [i \in DOMAIN s |-> s[Len(s) + 1 - i]]

\* whether a row (named by its id) passes a predicate
EvalPred(pred, r) ==
    IF pred.e = "BinaryExpr" /\ pred.op = "Gt" /\ pred.left = Col("id") /\ pred.right.e = "Literal"
    THEN r > pred.right.value
    ELSE TRUE

RECURSIVE Exec(_)
\* the rows a plan evaluates to, in the engine's output order
Exec(p) ==
    CASE p.op = "TableScan" -> TableRows(p.table)
      [] p.op = "Filter" -> SelectSeq(Exec(p.input), LAMBDA r : EvalPred(p.pred, r))
      [] p.op = "Aggregate" ->
            IF p.group = <<>> THEN <<0>> ELSE Exec(p.input)
      [] p.op = "Sort" ->
            IF p.exprs # <<>> /\ p.exprs[1].e = "Sort" /\ ~p.exprs[1].asc
            THEN Reverse(SortAsc(Range(Exec(p.input))))
            ELSE SortAsc(Range(Exec(p.input)))
      [] p.op = "Limit" ->
            LET rows == Exec(p.input)
                from == Min(p.skip, Len(rows)) + 1
                upto == IF p.fetch = None THEN Len(rows)
                        ELSE Min(Len(rows), p.skip + p.fetch[1])
            IN  SubSeq(rows, from, upto)
      [] p.op = "Join" ->
            LET l == Exec(p.left)
                r == Exec(p.right)
                inL(x) == x \in Range(l)
                inR(x) == x \in Range(r)
            IN  (CASE p.type = "Inner" -> SelectSeq(l, inR)
                   [] p.type = "Left" -> l
                   [] p.type = "Right" -> r
                   [] p.type = "Full" -> l \o SelectSeq(r, LAMBDA x : ~inL(x))
                   [] p.type = "LeftSemi" -> SelectSeq(l, inR)
                   [] p.type = "LeftAnti" -> SelectSeq(l, LAMBDA x : ~inR(x))
                   [] p.type = "RightSemi" -> SelectSeq(r, inL))
      [] p.op = "Explain" -> <<0, 1>>
      [] OTHER -> Exec(p.input)

RECURSIVE Chunk(_, _)
\* rows cut into record batches of at most n rows
Chunk(rows, n) ==
    IF rows = <<>> THEN <<>>
    ELSE IF Len(rows) <= n THEN <<rows>>
    ELSE <<SubSeq(rows, 1, n)>> \o Chunk(SubSeq(rows, n + 1, Len(rows)), n)

\* the record batches DataFrame::collect yields when the engine does not fail
Batches(plan) == Chunk(Exec(plan), BatchRows)

RECURSIVE TotalRows(_)
TotalRows(batches) ==
    IF batches = <<>> THEN 0 ELSE Len(Head(batches)) + TotalRows(Tail(batches))

----------------------------------------------------------------------------
(* src/functions.rs: the expression constructors.  A PyExpr wraps one      *)
(* engine expression.                                                      *)

PyExpr(x) == [expr |-> x]
\* the conversion PyExpr -> Expr of every constructor (e.into(), x.expr)
ExprsOf(args) == [i \in DOMAIN args |-> args[i].expr]

unwrap_or(opt, default) == IF opt = None THEN default ELSE opt[1]
unwrap_or_default(opt) == IF opt = None THEN <<>> ELSE opt[1]
is_some(opt) == opt # None

\* in_list
in_list(expr, value, negated) ==
    PyExpr([e |-> "InList", expr |-> expr.expr, list |-> ExprsOf(value), negated |-> negated])

\* digest
digest(value, method) ==
    PyExpr([e |-> "ScalarFunction", fun |-> "Digest", args |-> <<value.expr, method.expr>>])

\* concat
concat(args) ==
    Ok(PyExpr([e |-> "ScalarFunction", fun |-> "Concat", args |-> ExprsOf(args)]))

\* concat_ws: the separator becomes a literal in front of the arguments
concat_ws(sep, args) ==
    Ok(PyExpr([e |-> "ScalarFunction", fun |-> "ConcatWithSeparator",
               args |-> <<Lit(sep)>> \o ExprsOf(args)]))

\* an order_by whose nulls-first flag follows the direction when omitted
order_by_linked(expr, asc, nulls_first) ==
    Ok(PyExpr([e |-> "Sort", expr |-> expr.expr,
               asc |-> unwrap_or(asc, TRUE),
               nulls_first |-> unwrap_or(nulls_first, unwrap_or(asc, TRUE))]))

\* order_by
order_by(expr, asc, nulls_first) ==
    Ok(PyExpr([e |-> "Sort", expr |-> expr.expr,
               asc |-> unwrap_or(asc, TRUE),
               nulls_first |-> unwrap_or(nulls_first, TRUE)]))

\* alias
alias(expr, name) ==
    Ok(PyExpr([e |-> "Alias", expr |-> expr.expr, name |-> name]))

\* the engine's window functions: its own built-in ones, and every aggregate
BuiltInWindowFunctions ==
    <<
       <<"row_number", "RowNumber">>, <<"rank", "Rank">>, <<"dense_rank", "DenseRank">>,
       <<"lag", "Lag">>, <<"lead", "Lead">>, <<"first_value", "FirstValue">>
    >>
WindowAggregates ==
    <<
       <<"sum", "Sum">>, <<"count", "Count">>, <<"min", "Min">>, <<"max", "Max">>, <<"avg", "Avg">>
    >>

Lookup(table, name) ==
    IF \E i \in DOMAIN table : table[i][1] = name
    THEN Some(table[CHOOSE i \in DOMAIN table : table[i][1] = name][2])
    ELSE None

\* datafusion_expr::window_function::find_df_window_func: an Option
find_df_window_func(name) ==
    IF Lookup(WindowAggregates, name) # None
    THEN Some([kind |-> "AggregateFunction", fun |-> Lookup(WindowAggregates, name)[1]])
    ELSE IF Lookup(BuiltInWindowFunctions, name) # None
    THEN Some([kind |-> "BuiltInWindowFunction", fun |-> Lookup(BuiltInWindowFunctions, name)[1]])
    ELSE None

\* datafusion_expr::window_frame::WindowFrame::new(has_order_by)
WindowFrameNew(has_order_by) ==
    IF has_order_by
    THEN [units |-> "Range", start_bound |-> "UnboundedPreceding", end_bound |-> "CurrentRow"]
    ELSE [units |-> "Rows", start_bound |-> "UnboundedPreceding", end_bound |-> "UnboundedFollowing"]

\* a Rust panic unwinding out of the function
Panic(message) == Err([kind |-> "Panic", msg |-> <<message>>])
IsPanic(r) == ~r.ok /\ r.err.kind = "Panic"

\* window: Option::unwrap on the looked-up function, then the node
window(name, args, partition_by, order_by_arg) ==
    LET found == find_df_window_func(name)
        has_order_by == is_some(order_by_arg)
    IN  IF found = None
        THEN Panic("called Option::unwrap() on a None value")
        ELSE Ok(PyExpr([e |-> "WindowFunction",
                        fun |-> found[1],
                        args |-> ExprsOf(args),
                        partition_by |-> ExprsOf(unwrap_or_default(partition_by)),
                        order_by |-> ExprsOf(unwrap_or_default(order_by_arg)),
                        window_frame |-> WindowFrameNew(has_order_by)]))

\* the scalar_function! invocations, in source order: <<NAME, FUNC>>
ScalarFunctions ==
    <<
       <<"abs", "Abs">>, <<"acos", "Acos">>, <<"ascii", "Ascii">>,
       <<"asin", "Asin">>, <<"atan", "Atan">>, <<"atan2", "Atan2">>,
       <<"bit_length", "BitLength">>, <<"btrim", "Btrim">>, <<"ceil", "Ceil">>,
       <<"character_length", "CharacterLength">>, <<"length", "CharacterLength">>, <<"char_length", "CharacterLength">>,
       <<"chr", "Chr">>, <<"coalesce", "Coalesce">>, <<"cos", "Cos">>,
       <<"exp", "Exp">>, <<"floor", "Floor">>, <<"initcap", "InitCap">>,
       <<"left", "Left">>, <<"ln", "Ln">>, <<"log", "Log">>,
       <<"log10", "Log10">>, <<"log2", "Log2">>, <<"lower", "Lower">>,
       <<"lpad", "Lpad">>, <<"ltrim", "Ltrim">>, <<"md5", "MD5">>,
       <<"octet_length", "OctetLength">>, <<"power", "Power">>, <<"pow", "Power">>,
       <<"regexp_match", "RegexpMatch">>, <<"regexp_replace", "RegexpReplace">>, <<"repeat", "Repeat">>,
       <<"replace", "Replace">>, <<"reverse", "Reverse">>, <<"right", "Right">>,
       <<"round", "Round">>, <<"rpad", "Rpad">>, <<"rtrim", "Rtrim">>,
       <<"sha224", "SHA224">>, <<"sha256", "SHA256">>, <<"sha384", "SHA384">>,
       <<"sha512", "SHA512">>, <<"signum", "Signum">>, <<"sin", "Sin">>,
       <<"split_part", "SplitPart">>, <<"sqrt", "Sqrt">>, <<"starts_with", "StartsWith">>,
       <<"strpos", "Strpos">>, <<"substr", "Substr">>, <<"tan", "Tan">>,
       <<"to_hex", "ToHex">>, <<"now", "Now">>, <<"to_timestamp", "ToTimestamp">>,
       <<"to_timestamp_millis", "ToTimestampMillis">>, <<"to_timestamp_micros", "ToTimestampMicros">>, <<"to_timestamp_seconds", "ToTimestampSeconds">>,
       <<"current_date", "CurrentDate">>, <<"current_time", "CurrentTime">>, <<"datepart", "DatePart">>,
       <<"date_part", "DatePart">>, <<"date_trunc", "DateTrunc">>, <<"datetrunc", "DateTrunc">>,
       <<"date_bin", "DateBin">>, <<"translate", "Translate">>, <<"trim", "Trim">>,
       <<"trunc", "Trunc">>, <<"upper", "Upper">>, <<"make_array", "MakeArray">>,
       <<"array", "MakeArray">>, <<"nullif", "NullIf">>, <<"from_unixtime", "FromUnixtime">>,
       <<"arrow_typeof", "ArrowTypeof">>, <<"random", "Random">>
    >>

\* the aggregate_function! invocations, in source order: <<NAME, FUNC>>
AggregateFunctions ==
    <<
       <<"avg", "Avg">>, <<"count", "Count">>, <<"max", "Max">>,
       <<"min", "Min">>, <<"sum", "Sum">>, <<"approx_distinct", "ApproxDistinct">>
    >>

\* init_module: the names added to the host module, in source order
Registered ==
    <<
       "abs", "acos", "approx_distinct", "alias", "array", "arrow_typeof",
       "ascii", "asin", "atan", "atan2", "avg", "bit_length",
       "btrim", "ceil", "character_length", "chr", "char_length", "coalesce",
       "concat_ws", "concat", "cos", "count", "current_date", "current_time",
       "date_bin", "datepart", "date_part", "datetrunc", "date_trunc", "digest",
       "exp", "floor", "from_unixtime", "in_list", "initcap", "left",
       "length", "ln", "log", "log10", "log2", "lower",
       "lpad", "ltrim", "max", "make_array", "md5", "min",
       "now", "nullif", "octet_length", "order_by", "power", "pow",
       "random", "regexp_match", "regexp_replace", "repeat", "replace", "reverse",
       "right", "round", "rpad", "rtrim", "sha224", "sha256",
       "sha384", "sha512", "signum", "sin", "split_part", "sqrt",
       "starts_with", "strpos", "substr", "sum", "tan", "to_hex",
       "to_timestamp", "to_timestamp_millis", "to_timestamp_micros", "to_timestamp_seconds", "translate", "trim",
       "trunc", "upper", "window"
    >>

Names(table) == {table[i][1] : i \in DOMAIN table}

\* a registration pasted from the line above it with only the name changed
scalar_function_pasted(NAME, args) ==
    PyExpr([e |-> "ScalarFunction",
            fun |-> IF NAME = "sha256" THEN "SHA224" ELSE Lookup(ScalarFunctions, NAME)[1],
            args |-> ExprsOf(args)])

\* the function scalar_function!(NAME, FUNC) defines
scalar_function(NAME, args) ==
    PyExpr([e |-> "ScalarFunction",
            fun |-> Lookup(ScalarFunctions, NAME)[1],
            args |-> ExprsOf(args)])

\* the function aggregate_function!(NAME, FUNC) defines
aggregate_function(NAME, args, distinct) ==
    PyExpr([e |-> "AggregateFunction",
            fun |-> Lookup(AggregateFunctions, NAME)[1],
            args |-> ExprsOf(args),
            distinct |-> distinct,
            filter |-> None])

----------------------------------------------------------------------------
(* Host objects passed as an index key, and pyo3's extraction of them.     *)

PyStr(s) == [ty |-> "str", v |-> s]
PyInt(n) == [ty |-> "int", n |-> n]
PyTupleOf(items) == [ty |-> "tuple", items |-> items]
PyListOf(items) == [ty |-> "list", items |-> items]
PyNone == [ty |-> "NoneType"]

PyTypeError(parts) == [kind |-> "PyTypeError", msg |-> parts]
DowncastError(obj, to) ==
    PyTypeError(<<"'", obj.ty, "' object cannot be converted to '", to, "'">>)

\* Iterator<Item = Result<T, E>>::collect::<Result<Vec<T>, E>>(): the values in
\* order, or the first error alone
CollectResults(rs) ==
    IF \E i \in DOMAIN rs : ~rs[i].ok
    THEN rs[CHOOSE i \in DOMAIN rs : ~rs[i].ok /\ \A j \in 1..(i - 1) : rs[j].ok]
    ELSE Ok([i \in DOMAIN rs |-> rs[i].val])

\* obj.extract::<&str>()
ExtractStr(obj) == IF obj.ty = "str" THEN Ok(obj.v) ELSE Err(DowncastError(obj, "PyString"))
\* obj.extract::<&PyTuple>()
ExtractTuple(obj) == IF obj.ty = "tuple" THEN Ok(obj.items) ELSE Err(DowncastError(obj, "PyTuple"))
\* obj.extract::<Vec<&str>>(): a sequence whose every item is extracted
ExtractVecStr(obj) ==
    IF obj.ty \in {"list", "tuple"}
    THEN CollectResults([i \in DOMAIN obj.items |-> ExtractStr(obj.items[i])])
    ELSE Err(DowncastError(obj, "Sequence"))

----------------------------------------------------------------------------
(* src/dataframe.rs: PyDataFrame.  A method's outcome is its PyResult and  *)
(* the engine primitives it invoked, in order.                             *)

\* PyDataFrame::new
New(df) == [df |-> df]

Invoked(fn, df, args) == [fn |-> fn, df |-> df, args |-> args]
Outcome(res, eng) == [res |-> res, eng |-> eng]
\* let df = <engine call>?; Ok(Self::new(df))
Wrap(r, eng) == Outcome(IF r.ok THEN Ok(New(r.val)) ELSE r, eng)

\* PyDataFrame::select_columns
select_columns(self, args) ==
    Wrap(EngineSelectColumns(self.df, args),
         <<Invoked("select_columns", self.df, <<args>>)>>)

IndexMessage == "DataFrame can only be indexed by string index or indices"

\* an indexing that selects the names of a tuple or list last to first
getitem_reversed(self, key) ==
    IF ExtractStr(key).ok
    THEN select_columns(self, <<ExtractStr(key).val>>)
    ELSE IF ExtractTuple(key).ok
    THEN LET tuple == ExtractTuple(key).val
             keys == CollectResults([i \in DOMAIN tuple |-> ExtractStr(tuple[i])])
         IN  IF keys.ok THEN select_columns(self, Reverse(keys.val)) ELSE Outcome(keys, <<>>)
    ELSE IF ExtractVecStr(key).ok
    THEN select_columns(self, Reverse(ExtractVecStr(key).val))
    ELSE Outcome(Err(PyTypeError(<<IndexMessage>>)), <<>>)

\* an indexing that skips the items of a tuple that are not strings
getitem_skipping(self, key) ==
    IF ExtractStr(key).ok
    THEN select_columns(self, <<ExtractStr(key).val>>)
    ELSE IF ExtractTuple(key).ok
    THEN LET tuple == SelectSeq(ExtractTuple(key).val, LAMBDA x : ExtractStr(x).ok)
         IN  select_columns(self, [i \in DOMAIN tuple |-> ExtractStr(tuple[i]).val])
    ELSE IF ExtractVecStr(key).ok
    THEN select_columns(self, ExtractVecStr(key).val)
    ELSE Outcome(Err(PyTypeError(<<IndexMessage>>)), <<>>)

\* PyDataFrame::__getitem__
getitem(self, key) ==
    IF ExtractStr(key).ok
    THEN select_columns(self, <<ExtractStr(key).val>>)
    ELSE IF ExtractTuple(key).ok
    THEN LET tuple == ExtractTuple(key).val
             keys == CollectResults([i \in DOMAIN tuple |-> ExtractStr(tuple[i])])
         IN  IF keys.ok THEN select_columns(self, keys.val) ELSE Outcome(keys, <<>>)
    ELSE IF ExtractVecStr(key).ok
    THEN select_columns(self, ExtractVecStr(key).val)
    ELSE Outcome(Err(PyTypeError(<<IndexMessage>>)), <<>>)

\* PyDataFrame::select
select(self, args) ==
    LET expr == ExprsOf(args)
    IN  Wrap(EngineSelect(self.df, expr), <<Invoked("select", self.df, <<expr>>)>>)

\* PyDataFrame::filter
filter(self, predicate) ==
    Wrap(EngineFilter(self.df, predicate.expr),
         <<Invoked("filter", self.df, <<predicate.expr>>)>>)

\* PyDataFrame::with_column
with_column(self, name, expr) ==
    Wrap(EngineWithColumn(self.df, name, expr.expr),
         <<Invoked("with_column", self.df, <<name, expr.expr>>)>>)

\* PyDataFrame::aggregate
aggregate(self, group_by, aggs) ==
    LET g == ExprsOf(group_by)
        a == ExprsOf(aggs)
    IN  Wrap(EngineAggregate(self.df, g, a), <<Invoked("aggregate", self.df, <<g, a>>)>>)

\* PyDataFrame::sort
sort(self, exprs) ==
    LET x == ExprsOf(exprs)
    IN  Wrap(EngineSort(self.df, x), <<Invoked("sort", self.df, <<x>>)>>)

\* a limit that passes no fetch to the engine
limit_unbounded(self, count) ==
    Wrap(EngineLimit(self.df, 0, None),
         <<Invoked("limit", self.df, <<0, None>>)>>)

\* PyDataFrame::limit
limit(self, count) ==
    Wrap(EngineLimit(self.df, 0, Some(count)),
         <<Invoked("limit", self.df, <<0, Some(count)>>)>>)

\* the message of DataFusionError::Common built by join
JoinMessage(how) == <<"The join type ", how, " does not exist or is not implemented">>

\* a match whose semi and anti arms are exchanged
JoinTypeExchanged(how) ==
    CASE how = "inner" -> Some("Inner")
      [] how = "left" -> Some("Left")
      [] how = "right" -> Some("Right")
      [] how = "full" -> Some("Full")
      [] how = "semi" -> Some("LeftAnti")
      [] how = "anti" -> Some("LeftSemi")
      [] how = "right_semi" -> Some("RightSemi")
      [] OTHER -> None

\* a match that falls back to the inner join
JoinTypeLenient(how) ==
    CASE how = "inner" -> Some("Inner")
      [] how = "left" -> Some("Left")
      [] how = "right" -> Some("Right")
      [] how = "full" -> Some("Full")
      [] how = "semi" -> Some("LeftSemi")
      [] how = "anti" -> Some("LeftAnti")
      [] how = "right_semi" -> Some("RightSemi")
      [] OTHER -> Some("Inner")

\* the match of join: the engine's join type, or nothing
JoinType(how) ==
    CASE how = "inner" -> Some("Inner")
      [] how = "left" -> Some("Left")
      [] how = "right" -> Some("Right")
      [] how = "full" -> Some("Full")
      [] how = "semi" -> Some("LeftSemi")
      [] how = "anti" -> Some("LeftAnti")
      [] how = "right_semi" -> Some("RightSemi")
      [] OTHER -> None

\* PyDataFrame::join
join(self, right, join_keys, how) ==
    LET join_type == JoinType(how)
    IN  IF join_type = None
        THEN Outcome(Err([kind |-> "Common", msg |-> JoinMessage(how)]), <<>>)
        ELSE Wrap(EngineJoin(self.df, right.df, join_type[1], join_keys[1], join_keys[2], None),
                  <<Invoked("join", self.df,
                            <<right.df, join_type[1], join_keys[1], join_keys[2], None>>)>>)

\* the row count show uses when the host gives none
DefaultShowNum == 20

PyArrowException(what) == [kind |-> "PyArrowException", msg |-> <<what>>]

\* RecordBatch::to_pyarrow: the host object of a batch
to_pyarrow(rb) == [ty |-> "pyarrow.RecordBatch", rows |-> rb]

\* wait_for_future: the output of the future, once it has completed
wait_for_future(fut) == fut[1]

\* a collect that returns the batches converted before the first failure
collect_keep_converted(fut, fail) ==
    LET r == wait_for_future(fut)
    IN  IF ~r.ok THEN r
        ELSE LET upto == IF fail \in DOMAIN r.val THEN fail - 1 ELSE Len(r.val)
             IN  Ok([i \in 1..upto |-> to_pyarrow(r.val[i])])

\* PyDataFrame::collect, from the return of wait_for_future on; to_pyarrow
\* fails for batch number fail (0: for none)
collect(fut, fail) ==
    LET r == wait_for_future(fut)
    IN  IF ~r.ok THEN r
        ELSE CollectResults([i \in DOMAIN r.val |->
                IF i = fail THEN Err(PyArrowException("to_pyarrow")) ELSE Ok(to_pyarrow(r.val[i]))])

\* pretty::print_batches(&batches).map_err(..): what reaches stdout, and the result
print_batches(batches, fails) ==
    IF fails
    THEN [printed |-> <<>>, res |-> Err(PyArrowException("print_batches"))]
    ELSE [printed |-> batches, res |-> Ok(<<>>)]

\* a show that executes the receiver's plan as it is
show_plan_unlimited(self, num) == Ok(self.df)

\* the plan show executes
show_plan(self, num) == EngineLimit(self.df, 0, Some(num))

\* show and explain, from the return of wait_for_future on
print_result(fut, fails) ==
    LET r == wait_for_future(fut)
    IN  IF ~r.ok THEN [printed |-> <<>>, res |-> r]
        ELSE print_batches(r.val, fails)

\* pretty::pretty_format_batches: the text of the table
pretty_format_batches(batches, fails) ==
    IF fails THEN Err(PyArrowException("pretty_format_batches"))
    ELSE Ok([ty |-> "str", table |-> batches])

\* explain_string, from the return of wait_for_future on
explain_string(fut, fails) ==
    LET r == wait_for_future(fut)
    IN  IF ~r.ok THEN r ELSE pretty_format_batches(r.val, fails)

----------------------------------------------------------------------------
(* The state machine.                                                      *)

\* the host threads that run a collect, show or explain call
Threads == {"t1", "t2"}
\* the thread of a host that calls from one thread only
MainThread == {"t1"}

NoCall == [fn |-> "none"]

Idle == [pc |-> "idle", op |-> "none", self |-> None, args |-> None, plan |-> None,
         produced |-> 0, fut |-> None]

\* the host holds one DataFrame per registered table
Init ==
    /\ dfs = <<New(TableScan("t1")), New(TableScan("t2"))>>
    /\ last = NoCall
    /\ th = [t \in Threads |-> Idle]

\* the host keeps the object a successful call returns, while it has room
Keep(d, res) == IF res.ok /\ Len(d) < MaxDfs THEN Append(d, res.val) ELSE d

Logged(fn, self, args, o) == [fn |-> fn, self |-> self, args |-> args, out |-> o]

\* The effect of a builder method (&self, Ok(Self::new(df))): a new object on
\* success, no object on failure, every existing object as it was.  The host
\* either looks at the outcome (log) or keeps the returned object.
Built(log, fn, self, args, o) ==
    /\ last = NoCall
    /\ log \/ Len(dfs) < MaxDfs
    /\ dfs' = IF log THEN dfs ELSE Keep(dfs, o.res)
    /\ last' = IF log THEN Logged(fn, dfs[self], args, o) ELSE NoCall
    /\ UNCHANGED th

\* the host is done looking at the outcome of its last call
Observed ==
    /\ last # NoCall
    /\ last' = NoCall
    /\ UNCHANGED <<dfs, th>>

GetItem(self, key, log) ==
    /\ self \in DOMAIN dfs
    /\ Built(log, "getitem", self, <<key>>, getitem(dfs[self], key))

SelectColumns(self, args, log) ==
    /\ self \in DOMAIN dfs
    /\ Built(log, "select_columns", self, <<args>>, select_columns(dfs[self], args))

Select(self, args, log) ==
    /\ self \in DOMAIN dfs
    /\ Built(log, "select", self, <<args>>, select(dfs[self], args))

Filter(self, predicate, log) ==
    /\ self \in DOMAIN dfs
    /\ Built(log, "filter", self, <<predicate>>, filter(dfs[self], predicate))

WithColumn(self, name, expr, log) ==
    /\ self \in DOMAIN dfs
    /\ Built(log, "with_column", self, <<name, expr>>, with_column(dfs[self], name, expr))

Aggregate(self, group_by, aggs, log) ==
    /\ self \in DOMAIN dfs
    /\ Built(log, "aggregate", self, <<group_by, aggs>>, aggregate(dfs[self], group_by, aggs))

Sort(self, exprs, log) ==
    /\ self \in DOMAIN dfs
    /\ Built(log, "sort", self, <<exprs>>, sort(dfs[self], exprs))

Limit(self, count, log) ==
    /\ self \in DOMAIN dfs
    /\ Built(log, "limit", self, <<count>>, limit(dfs[self], count))

Join(self, right, join_keys, how, log) ==
    /\ self \in DOMAIN dfs /\ right \in DOMAIN dfs
    /\ Built(log, "join", self, <<dfs[right], join_keys, how>>,
             join(dfs[self], dfs[right], join_keys, how))

(* collect, show, explain and explain_string block in wait_for_future: the  *)
(* call submits a plan, the engine runs it, and the method resumes when the *)
(* future has completed.                                                    *)

Submitted(t, op, self, args, plan) ==
    /\ last = NoCall
    /\ th' = [th EXCEPT ![t] = [pc |-> "waiting", op |-> op, self |-> self, args |-> args,
                                plan |-> Some(plan), produced |-> 0, fut |-> None]]

\* a call that returns: the thread is free again, the host sees the outcome
\* (env: what the environment decided during the return, kept for the record)
Returned(t, res, printed, env) ==
    /\ last = NoCall
    /\ last' = Logged(th[t].op, th[t].self, th[t].args,
                      [res |-> res, printed |-> printed, plan |-> th[t].plan,
                       fut |-> th[t].fut, produced |-> th[t].produced, env |-> env])
    /\ th' = [th EXCEPT ![t] = Idle]
    /\ UNCHANGED dfs

\* a call whose plan the engine refused to build: the error is returned at
\* once, nothing is submitted
Refused(t, op, self, args, res) ==
    /\ last = NoCall
    /\ last' = Logged(op, self, args,
                      [res |-> res, printed |-> <<>>, plan |-> None, fut |-> None,
                       produced |-> 0, env |-> FALSE])
    /\ UNCHANGED th

CollectCall(t, self) ==
    /\ th[t].pc = "idle"
    /\ Submitted(t, "collect", dfs[self], <<>>, dfs[self].df)
    /\ UNCHANGED <<dfs, last>>

\* num: None when the host passes no row count
ShowCall(t, self, num) ==
    /\ th[t].pc = "idle"
    /\ LET df == show_plan(dfs[self], unwrap_or(num, DefaultShowNum))
       IN  IF df.ok
           THEN Submitted(t, "show", dfs[self], <<num>>, df.val) /\ UNCHANGED last
           ELSE Refused(t, "show", dfs[self], <<num>>, df)
    /\ UNCHANGED dfs

ExplainCall(t, self, verbose, analyze, op) ==
    /\ th[t].pc = "idle"
    /\ LET df == EngineExplain(dfs[self].df, verbose, analyze)
       IN  IF df.ok
           THEN Submitted(t, op, dfs[self], <<verbose, analyze>>, df.val) /\ UNCHANGED last
           ELSE Refused(t, op, dfs[self], <<verbose, analyze>>, df)
    /\ UNCHANGED dfs

\* the engine's workers produce the next batch of a running plan
EngineProduce(t) ==
    /\ th[t].pc = "waiting" /\ th[t].fut = None
    /\ th[t].produced < Len(Batches(th[t].plan[1]))
    /\ th' = [th EXCEPT ![t].produced = @ + 1]
    /\ UNCHANGED <<dfs, last>>

\* the engine signals completion: the future yields every batch, in order
EngineComplete(t) ==
    /\ th[t].pc = "waiting" /\ th[t].fut = None
    /\ th[t].produced = Len(Batches(th[t].plan[1]))
    /\ th' = [th EXCEPT ![t].fut = Some(Ok(Batches(th[t].plan[1])))]
    /\ UNCHANGED <<dfs, last>>

\* the engine fails: the future yields the failure
EngineFail(t) ==
    /\ th[t].pc = "waiting" /\ th[t].fut = None
    /\ th' = [th EXCEPT ![t].fut = Some(Err([kind |-> "ExecutionError", msg |-> <<"execution">>]))]
    /\ UNCHANGED <<dfs, last>>

Resumes(t, op) == th[t].pc = "waiting" /\ th[t].op = op /\ th[t].fut # None

CollectReturn(t, fail) ==
    /\ Resumes(t, "collect")
    /\ Returned(t, collect(th[t].fut, fail), <<>>, fail)

ShowReturn(t, fails) ==
    /\ Resumes(t, "show")
    /\ LET r == print_result(th[t].fut, fails)
       IN  Returned(t, r.res, r.printed, fails)

ExplainReturn(t, fails) ==
    /\ Resumes(t, "explain")
    /\ LET r == print_result(th[t].fut, fails)
       IN  Returned(t, r.res, r.printed, fails)

ExplainStringReturn(t, fails) ==
    /\ Resumes(t, "explain_string")
    /\ Returned(t, explain_string(th[t].fut, fails), <<>>, fails)

ColumnNames == {"id", "zz"}
KeyItems == {PyStr("id"), PyStr("name"), PyInt(7)}
Keys ==
    {PyStr("id"), PyStr("zz"), PyInt(7), PyNone}
    \cup {PyTupleOf(s) : s \in SeqsUpTo(KeyItems, MaxKeyLen)}
    \cup {PyListOf(s) : s \in SeqsUpTo(KeyItems, MaxKeyLen)}
NameLists == SeqsUpTo(ColumnNames, MaxKeyLen)

ColId == PyExpr(Col("id"))
ColZz == PyExpr(Col("zz"))
Predicates == {PyExpr(Gt(Col("id"), Lit(1))), PyExpr(Gt(Col("zz"), Lit(1)))}
SortKeys == {order_by(ColId, Some(FALSE), None).val, order_by(ColZz, None, None).val}
Aggs == {aggregate_function("count", <<ColId>>, FALSE)}
JoinKeys == {<<<<"id">>, <<"id">>>>, <<<<"id">>, <<"zz">>>>}
JoinTokens == {"inner", "left", "right", "full", "semi", "anti", "right_semi"}
OtherTokens == {"", "Inner", "bogus"}
Counts == 0..MaxCount
Nums == {None} \cup {Some(k) : k \in Counts}

\* the builder calls whose returned object the host keeps
Builds ==
    \/ \E self \in DOMAIN dfs, key \in {PyStr("id"), PyInt(7)} : GetItem(self, key, FALSE)
    \/ \E self \in DOMAIN dfs : SelectColumns(self, <<"name", "id">>, FALSE)
    \/ \E self \in DOMAIN dfs : Select(self, <<ColId>>, FALSE)
    \/ \E self \in DOMAIN dfs : Filter(self, PyExpr(Gt(Col("id"), Lit(1))), FALSE)
    \/ \E self \in DOMAIN dfs : WithColumn(self, "c", ColId, FALSE)
    \/ \E self \in DOMAIN dfs, a \in Aggs : Aggregate(self, <<>>, <<a>>, FALSE)
    \/ \E self \in DOMAIN dfs : Sort(self, <<order_by(ColId, Some(FALSE), None).val>>, FALSE)
    \/ \E self \in DOMAIN dfs, count \in Counts : Limit(self, count, FALSE)
    \/ \E self \in DOMAIN dfs, right \in DOMAIN dfs, how \in {"inner", "bogus"} :
          Join(self, right, <<<<"id">>, <<"id">>>>, how, FALSE)

\* the builder calls whose outcome the host looks at
Probes ==
    \/ \E self \in DOMAIN dfs, key \in Keys : GetItem(self, key, TRUE)
    \/ \E self \in DOMAIN dfs, args \in NameLists : SelectColumns(self, args, TRUE)
    \/ \E self \in DOMAIN dfs, x \in {ColId, ColZz} : Select(self, <<x>>, TRUE)
    \/ \E self \in DOMAIN dfs, p \in Predicates : Filter(self, p, TRUE)
    \/ \E self \in DOMAIN dfs, x \in {ColId, ColZz} : WithColumn(self, "c", x, TRUE)
    \/ \E self \in DOMAIN dfs, g \in {<<>>, <<ColId>>}, a \in Aggs :
          Aggregate(self, g, <<a>>, TRUE)
    \/ \E self \in DOMAIN dfs, k \in SortKeys : Sort(self, <<k>>, TRUE)
    \/ \E self \in DOMAIN dfs, count \in Counts : Limit(self, count, TRUE)
    \/ \E self \in DOMAIN dfs, right \in DOMAIN dfs, k \in JoinKeys,
          how \in JoinTokens \cup OtherTokens : Join(self, right, k, how, TRUE)

Executes ==
    \/ \E t \in MainThread, self \in DOMAIN dfs : CollectCall(t, self)
    \/ \E t \in MainThread, self \in DOMAIN dfs, num \in Nums : ShowCall(t, self, num)
    \/ \E t \in MainThread, self \in DOMAIN dfs, verbose \in BOOLEAN,
          op \in {"explain", "explain_string"} : ExplainCall(t, self, verbose, FALSE, op)
    \/ \E t \in MainThread : EngineProduce(t)
    \/ \E t \in MainThread : EngineComplete(t)
    \/ \E t \in MainThread : EngineFail(t)
    \/ \E t \in MainThread, fail \in 0..(1 + MaxCount) : CollectReturn(t, fail)
    \/ \E t \in MainThread, fails \in BOOLEAN : ShowReturn(t, fails)
    \/ \E t \in MainThread, fails \in BOOLEAN : ExplainReturn(t, fails)
    \/ \E t \in MainThread, fails \in BOOLEAN : ExplainStringReturn(t, fails)

\* the host holds the DataFrame of one table, which its threads share
InitShared ==
    /\ dfs = <<New(TableScan("t1"))>>
    /\ last = NoCall
    /\ th = [t \in Threads |-> Idle]

\* the exception a failed builder call raises in the host
Raised(fn, o) == [fn |-> fn, out |-> [res |-> o.res]]

\* a builder method that stored its result in the receiver
ChainedInPlace(fn, self, args, o) ==
    /\ last = NoCall
    /\ ~o.res.ok \/ Len(dfs) < MaxChain
    /\ dfs' = IF o.res.ok THEN [dfs EXCEPT ![self] = o.res.val] ELSE dfs
    /\ last' = IF o.res.ok THEN NoCall ELSE Raised(fn, o)
    /\ UNCHANGED th

\* A builder method called by a host that keeps what it returns: on success
\* the new object joins the ones the host holds, on failure the host catches
\* the exception and there is no object to keep.
Chained(fn, self, args, o) ==
    /\ last = NoCall
    /\ ~o.res.ok \/ Len(dfs) < MaxChain
    /\ dfs' = IF o.res.ok THEN Append(dfs, o.res.val) ELSE dfs
    /\ last' = IF o.res.ok THEN NoCall ELSE Raised(fn, o)
    /\ UNCHANGED th

BuilderOps ==
    {"getitem", "select_columns", "select", "filter", "with_column", "aggregate", "sort",
     "limit", "join"}

\* every builder method, on the table or on a derived DataFrame: a call fails
\* where the receiver lacks the column it names, for a key that is no name
\* and for an unknown join type
Derives ==
    \/ \E self \in DOMAIN dfs, key \in {PyStr("id"), PyInt(7)} :
          Chained("getitem", self, <<key>>, getitem(dfs[self], key))
    \/ \E self \in DOMAIN dfs :
          Chained("select_columns", self, <<<<"name", "id">>>>,
                  select_columns(dfs[self], <<"name", "id">>))
    \/ \E self \in DOMAIN dfs :
          Chained("select", self, <<<<ColId>>>>, select(dfs[self], <<ColId>>))
    \/ \E self \in DOMAIN dfs, p \in Predicates :
          Chained("filter", self, <<p>>, filter(dfs[self], p))
    \/ \E self \in DOMAIN dfs :
          Chained("with_column", self, <<"c", ColId>>, with_column(dfs[self], "c", ColId))
    \/ \E self \in DOMAIN dfs, a \in Aggs :
          Chained("aggregate", self, <<<<>>, <<a>>>>, aggregate(dfs[self], <<>>, <<a>>))
    \/ \E self \in DOMAIN dfs, k \in SortKeys :
          Chained("sort", self, <<<<k>>>>, sort(dfs[self], <<k>>))
    \/ \E self \in DOMAIN dfs :
          Chained("limit", self, <<1>>, limit(dfs[self], 1))
    \/ \E self \in DOMAIN dfs, right \in DOMAIN dfs, how \in {"inner", "bogus"} :
          Chained("join", self, <<dfs[right], <<<<"id">>, <<"id">>>>, how>>,
                  join(dfs[self], dfs[right], <<<<"id">>, <<"id">>>>, how))

\* collect from either thread, show from the first and explain from the
\* second, each call running while the other thread and the builder calls go on
Shares ==
    \/ \E t \in Threads, self \in DOMAIN dfs : CollectCall(t, self)
    \/ \E t \in MainThread, self \in DOMAIN dfs : ShowCall(t, self, None)
    \/ \E t \in Threads \ MainThread, self \in DOMAIN dfs :
          ExplainCall(t, self, FALSE, FALSE, "explain")
    \/ \E t \in Threads : EngineProduce(t)
    \/ \E t \in Threads : EngineComplete(t)
    \/ \E t \in Threads : EngineFail(t)
    \/ \E t \in Threads, fail \in {0, 1} : CollectReturn(t, fail)
    \/ \E t \in Threads, fails \in BOOLEAN : ShowReturn(t, fails)
    \/ \E t \in Threads, fails \in BOOLEAN : ExplainReturn(t, fails)

(* The functions module: the host calls a function it finds under a name   *)
(* init_module registered, and looks at the outcome.                       *)

Called(fn, args, res) ==
    /\ fn \in Range(Registered)
    /\ last' = Logged(fn, None, args, [res |-> res, eng |-> <<>>])
    /\ UNCHANGED <<dfs, th>>

ScalarCall(NAME, args) ==
    /\ last = NoCall
    /\ NAME \in Names(ScalarFunctions)
    /\ Called(NAME, <<args>>, Ok(scalar_function(NAME, args)))

AggregateCall(NAME, args, distinct) ==
    /\ last = NoCall
    /\ NAME \in Names(AggregateFunctions)
    /\ Called(NAME, <<args, distinct>>, Ok(aggregate_function(NAME, args, distinct)))

InListCall(expr, value, negated) ==
    /\ last = NoCall
    /\ Called("in_list", <<expr, value, negated>>, Ok(in_list(expr, value, negated)))

DigestCall(value, method) ==
    /\ last = NoCall
    /\ Called("digest", <<value, method>>, Ok(digest(value, method)))

ConcatCall(args) ==
    /\ last = NoCall
    /\ Called("concat", <<args>>, concat(args))

ConcatWsCall(sep, args) ==
    /\ last = NoCall
    /\ Called("concat_ws", <<sep, args>>, concat_ws(sep, args))

OrderByCall(expr, asc, nulls_first) ==
    /\ last = NoCall
    /\ Called("order_by", <<expr, asc, nulls_first>>, order_by(expr, asc, nulls_first))

AliasCall(expr, name) ==
    /\ last = NoCall
    /\ Called("alias", <<expr, name>>, alias(expr, name))

WindowCall(name, args, partition_by, order_by_arg) ==
    /\ last = NoCall
    /\ Called("window", <<name, args, partition_by, order_by_arg>>,
              window(name, args, partition_by, order_by_arg))

ArgExprs == {ColId, PyExpr(Lit(1))}
ArgLists == SeqsUpTo(ArgExprs, MaxArgs)
OptBools == {None, Some(TRUE), Some(FALSE)}
WindowNames == Names(BuiltInWindowFunctions) \cup Names(WindowAggregates)
UnknownNames == {"", "no_such_function", "abs"}
PartitionLists == {None, Some(<<>>), Some(<<ColId>>)}
OrderLists ==
    {None, Some(<<>>), Some(<<order_by(ColId, None, None).val>>),
     Some(<<order_by(ColId, Some(FALSE), None).val, order_by(ColZz, None, Some(FALSE)).val>>)}

NextExpr ==
    \/ \E NAME \in Names(ScalarFunctions), args \in ArgLists : ScalarCall(NAME, args)
    \/ \E NAME \in Names(AggregateFunctions), args \in ArgLists, distinct \in BOOLEAN :
          AggregateCall(NAME, args, distinct)
    \/ \E x \in ArgExprs, value \in ArgLists, negated \in BOOLEAN : InListCall(x, value, negated)
    \/ \E value \in ArgExprs : DigestCall(value, PyExpr(Lit("sha256")))
    \/ \E args \in ArgLists : ConcatCall(args)
    \/ \E args \in ArgLists : ConcatWsCall("-", args)
    \/ \E x \in ArgExprs, asc \in OptBools, nulls_first \in OptBools :
          OrderByCall(x, asc, nulls_first)
    \/ \E x \in ArgExprs, name \in {"a", "b"} : AliasCall(x, name)
    \/ \E name \in WindowNames \cup UnknownNames, args \in ArgLists,
          partition_by \in PartitionLists, order_by_arg \in OrderLists :
          WindowCall(name, args, partition_by, order_by_arg)
    \/ Observed

\* the builder alone: every call of it, on every object the host holds
Next == Builds \/ Probes \/ Observed
Spec == Init /\ [][Next]_vars

\* the builder and the execution bridge, interleaved
NextExec == Builds \/ Executes \/ Observed
SpecExec == Init /\ [][NextExec]_vars

\* DataFrames shared by two threads: builder calls on tables and on derived
\* DataFrames, while calls of both threads are executing
NextShared == Derives \/ Shares \/ Observed
SpecShared == InitShared /\ [][NextShared]_vars

\* the functions module
SpecExpr == Init /\ [][NextExpr]_vars

----------------------------------------------------------------------------
(* Properties.                                                             *)

\* the batches of a plan as the host receives them when nothing fails
Converted(plan) == [i \in DOMAIN Batches(plan) |-> to_pyarrow(Batches(plan)[i])]

\* the rows of a list of host batches
HostRows(val) == TotalRows([i \in DOMAIN val |-> val[i].rows])

\* the plans a derived plan is built on
PlanInputs(plan) == IF plan.op = "Join" THEN {plan.left, plan.right} ELSE {plan.input}

\* C1: whatever sequence of builder calls runs on a DataFrame and on the ones
\* derived from it, and however they interleave with the collect, show and
\* explain calls of two threads, every DataFrame the host holds keeps the
\* plan it had.  A successful transformation returns one new object, built on
\* plans the host already held, and raises nothing; a failed one raises an
\* error, returns no object and leaves the objects as they were; a call that
\* is executing keeps the receiver and the plan it was submitted with.
C1_PlansNeverChange ==
    [][/\ \A i \in DOMAIN dfs : i \in DOMAIN dfs' /\ dfs'[i] = dfs[i]
       /\ dfs' # dfs =>
             /\ Len(dfs') = Len(dfs) + 1
             /\ PlanInputs(dfs'[Len(dfs')].df) \subseteq {d.df : d \in Range(dfs)}
             /\ last' = NoCall
       /\ (last = NoCall /\ last' # NoCall /\ last'.fn \in BuilderOps) =>
             /\ dfs' = dfs
             /\ ~last'.out.res.ok
             /\ DOMAIN last'.out.res = {"ok", "err"}
       /\ \A t \in Threads :
             /\ th'[t].pc = "waiting" => th'[t].self \in Range(dfs')
             /\ (th[t].pc = "waiting" /\ th'[t].pc = "waiting") =>
                   th'[t].self = th[t].self /\ th'[t].plan = th[t].plan]_vars

\* the host holds the table, a DataFrame derived from it and one derived from
\* that; a call on the table has produced a batch in one thread while the
\* other thread's call on the last DataFrame is executing, and a builder call
\* has just failed
C1_Witness ==
    /\ Len(dfs) = MaxChain
    /\ dfs[1] = New(TableScan("t1"))
    /\ dfs[2].df.op # "Join" /\ dfs[2].df.input = dfs[1].df
    /\ dfs[3].df.op # "Join" /\ dfs[3].df.input = dfs[2].df
    /\ th["t1"].pc = "waiting" /\ th["t1"].self = dfs[1] /\ th["t1"].produced > 0
    /\ th["t2"].pc = "waiting" /\ th["t2"].self = dfs[3]
    /\ last.fn \in BuilderOps /\ ~last.out.res.ok

\* C2: join with one of the seven tokens invokes the engine's join exactly
\* once, with the receiver as the left input, the argument as the right
\* input, the join type the table gives for the token, the two lists of key
\* names as given, and no filter.
JoinTable ==
    [how \in JoinTokens |->
        CASE how = "inner" -> "Inner"
          [] how = "left" -> "Left"
          [] how = "right" -> "Right"
          [] how = "full" -> "Full"
          [] how = "semi" -> "LeftSemi"
          [] how = "anti" -> "LeftAnti"
          [] how = "right_semi" -> "RightSemi"]

C2_JoinTokenTable ==
    (last.fn = "join" /\ last.args[3] \in JoinTokens) =>
        LET right == last.args[1]
            keys == last.args[2]
            ty == JoinTable[last.args[3]]
        IN  /\ last.out.eng =
                  <<[fn |-> "join", df |-> last.self.df,
                     args |-> <<right.df, ty, keys[1], keys[2], <<>>>>]>>
            /\ last.out.res.ok =>
                  /\ last.out.res.val.df.op = "Join"
                  /\ last.out.res.val.df.type = ty
                  /\ last.out.res.val.df.left = last.self.df
                  /\ last.out.res.val.df.right = right.df

\* a successful anti join of the two tables
C2_Witness ==
    /\ last.fn = "join" /\ last.args[3] = "anti"
    /\ last.self.df # last.args[1].df
    /\ last.out.res.ok
    /\ last.out.res.val.df.type = "LeftAnti"

\* C3: join with any other token (wrong case and the empty string included)
\* fails with the error that carries the token in its message, invokes no
\* engine primitive and returns no DataFrame, whether or not the keys are
\* valid.
C3_UnknownJoinType ==
    (last.fn = "join" /\ last.args[3] \notin
         {"inner", "left", "right", "full", "semi", "anti", "right_semi"}) =>
        /\ ~last.out.res.ok
        /\ last.out.res.err.kind = "Common"
        /\ last.out.res.err.msg =
              <<"The join type ", last.args[3], " does not exist or is not implemented">>
        /\ last.out.eng = <<>>

\* the token Inner, with keys the engine would accept for inner
C3_Witness ==
    /\ last.fn = "join" /\ last.args[3] = "Inner"
    /\ EngineJoin(last.self.df, last.args[1].df, "Inner",
                  last.args[2][1], last.args[2][2], None).ok
    /\ ~last.out.res.ok

\* C4: collect returns after the engine has signalled completion; on success
\* the host gets every batch of the plan, converted, in order; when the
\* engine fails the host gets that failure alone, and when the conversion of
\* any batch fails the host gets a failure alone, never the batches converted
\* before it.
C4_CollectAllOrNothing ==
    last.fn = "collect" =>
        LET o == last.out
            plan == o.plan[1]
        IN  /\ plan = last.self.df
            /\ o.fut # None
            /\ o.fut[1].ok => (o.produced = Len(Batches(plan)) /\ o.fut[1].val = Batches(plan))
            /\ o.res.ok => (o.fut[1].ok /\ o.res.val = Converted(plan))
            /\ ~o.fut[1].ok => o.res = o.fut[1]
            /\ (o.fut[1].ok /\ o.env \in DOMAIN Batches(plan)) =>
                  (~o.res.ok /\ o.res.err.kind = "PyArrowException")
            /\ ~o.res.ok => DOMAIN o.res = {"ok", "err"}

\* the engine produced two batches and the conversion of the second failed
C4_Witness ==
    /\ last.fn = "collect"
    /\ last.out.fut # None /\ last.out.fut[1].ok
    /\ Len(last.out.fut[1].val) = 2
    /\ last.out.env = 2
    /\ ~last.out.res.ok

\* C5: limit(k) on a builder p returns a builder whose plan is the limit node
\* with offset 0 and fetch k over p's plan, and a successful collect of that
\* builder yields at most k rows in total (none when k = 0).
C5_LimitBoundsRows ==
    /\ \A i \in DOMAIN dfs, k \in Counts :
          limit(dfs[i], k).res =
              Ok(New([op |-> "Limit", skip |-> 0, fetch |-> <<k>>, input |-> dfs[i].df]))
    /\ (last.fn = "collect" /\ last.out.res.ok) =>
          \A i \in DOMAIN dfs, k \in Counts :
              (limit(dfs[i], k).res.ok /\ limit(dfs[i], k).res.val = last.self) =>
                  HostRows(last.out.res.val) <= k

\* a limit to MaxCount rows over a plan with more rows, collected
C5_Witness ==
    /\ last.fn = "collect" /\ last.out.res.ok
    /\ last.self.df.op = "Limit" /\ last.self.df.fetch = <<MaxCount>>
    /\ Len(Exec(last.self.df.input)) > MaxCount
    /\ HostRows(last.out.res.val) = MaxCount

\* C6: show(num) executes exactly the plan limit(num) builds on the receiver,
\* with num = 20 when the host gives none, and prints the batches a collect
\* of that plan yields, so at most num rows; when the engine fails, the
\* failure is returned and nothing has been printed.
C6_ShowIsLimitedCollect ==
    last.fn = "show" =>
        LET o == last.out
            num == IF last.args[1] = <<>> THEN 20 ELSE last.args[1][1]
            node == [op |-> "Limit", skip |-> 0, fetch |-> <<num>>, input |-> last.self.df]
        IN  /\ limit(last.self, num).res = Ok(New(node))
            /\ o.plan = <<node>>
            /\ o.fut # <<>>
            /\ o.res.ok => (o.fut[1].ok /\ o.printed = Batches(node))
            /\ TotalRows(o.printed) <= num
            /\ ~o.fut[1].ok => (o.res = o.fut[1] /\ o.printed = <<>>)
            /\ ~o.res.ok => o.printed = <<>>

\* show without a row count on a table of more than 20 rows printed 20 rows
C6_Witness ==
    /\ last.fn = "show" /\ last.args[1] = <<>>
    /\ Len(Exec(last.self.df)) > 20
    /\ last.out.res.ok
    /\ TotalRows(last.out.printed) = 20

\* the names a key consists of
IsNames(key) ==
    \/ key.ty = "str"
    \/ key.ty \in {"tuple", "list"} /\ \A i \in DOMAIN key.items : key.items[i].ty = "str"

\* C7: indexing with one name n is selectColumns(<<n>>), and indexing with a
\* tuple or list of names is selectColumns of those names in the same order:
\* the same engine invocation, and the same plan or the same failure.
C7_IndexingIsSelectColumns ==
    (last.fn = "getitem" /\ IsNames(last.args[1])) =>
        LET key == last.args[1]
            names == IF key.ty = "str" THEN <<key.v>>
                     ELSE [i \in DOMAIN key.items |-> key.items[i].v]
        IN  /\ last.out = select_columns(last.self, names)
            /\ last.out.eng =
                  <<[fn |-> "select_columns", df |-> last.self.df, args |-> <<names>>]>>

\* indexing with the list [name, id] gave the columns name, id in that order
C7_Witness ==
    /\ last.fn = "getitem"
    /\ last.args[1] = PyListOf(<<PyStr("name"), PyStr("id")>>)
    /\ last.out.res.ok
    /\ Schema(last.out.res.val.df) = <<"name", "id">>

\* C8: indexing with a key that is neither one name nor a tuple or list of
\* names only fails with the host's TypeError, invokes no engine primitive
\* and returns no DataFrame.
C8_InvalidIndexType ==
    (last.fn = "getitem" /\ ~IsNames(last.args[1])) =>
        /\ ~last.out.res.ok
        /\ last.out.res.err.kind = "PyTypeError"
        /\ last.out.eng = <<>>

\* a tuple whose first item is a column of the receiver and whose second is
\* an integer
C8_Witness ==
    /\ last.fn = "getitem"
    /\ last.args[1] = PyTupleOf(<<PyStr("id"), PyInt(7)>>)
    /\ "id" \in Range(Schema(last.self.df))
    /\ ~last.out.res.ok

\* C9: window with a name that is no window function returns an error to the
\* caller (no expression, and no panic).
C9_UnknownWindowIsAnError ==
    (last.fn = "window" /\ find_df_window_func(last.args[1]) = None) =>
        /\ ~last.out.res.ok
        /\ ~IsPanic(last.out.res)

\* the engine function a call node is tagged with: its kind and its name
Ident(node) ==
    IF node.e = "WindowFunction" THEN <<node.fun.kind, node.fun.fun>>
    ELSE <<node.e, node.fun>>

\* the registered constructors of scalar and aggregate calls: the ones the
\* two macros define and the three written by hand
FunctionNames ==
    Names(ScalarFunctions) \cup Names(AggregateFunctions) \cup {"concat", "concat_ws", "digest"}

\* every host-facing function name: a registered constructor, or a name
\* window resolves
AllNames == FunctionNames \cup WindowNames

\* the engine functions a name is bound to, by the constructor of that name
\* and by window called with that name
IdentsOf(NAME) ==
    (IF NAME \in Names(ScalarFunctions)
     THEN {Ident(scalar_function(NAME, <<>>).expr)} ELSE {})
    \cup (IF NAME \in Names(AggregateFunctions)
          THEN {Ident(aggregate_function(NAME, <<>>, FALSE).expr)} ELSE {})
    \cup (IF NAME = "concat" THEN {Ident(concat(<<>>).val.expr)} ELSE {})
    \cup (IF NAME = "concat_ws" THEN {Ident(concat_ws("-", <<>>).val.expr)} ELSE {})
    \cup (IF NAME = "digest"
          THEN {Ident(digest(PyExpr(Lit(1)), PyExpr(Lit("md5"))).expr)} ELSE {})
    \cup (IF find_df_window_func(NAME) # <<>>
          THEN {Ident(window(NAME, <<>>, <<>>, <<>>).val.expr)} ELSE {})

\* the name the last call went by: the constructor's, or window's first
\* argument
CalledName == IF last.fn = "window" THEN last.args[1] ELSE last.fn

\* the last call is a function call by a name that resolves
IsFunctionCall ==
    \/ last.fn \in FunctionNames
    \/ last.fn = "window" /\ find_df_window_func(last.args[1]) # <<>>

\* C10 as stated: no two names are bound to the same engine function.
C10_OneToOne ==
    IsFunctionCall =>
        \A M \in AllNames \ {CalledName} :
            Ident(last.out.res.val.expr) \notin IdentsOf(M)

\* the names registered as aliases, with the engine function of each group
AliasGroups ==
    {<<"CharacterLength", {"character_length", "length", "char_length"}>>,
     <<"Power", {"power", "pow"}>>,
     <<"DatePart", {"datepart", "date_part"}>>,
     <<"DateTrunc", {"date_trunc", "datetrunc"}>>,
     <<"MakeArray", {"make_array", "array"}>>}

\* C10: every registered scalar or aggregate constructor, and window with
\* every name it resolves, produces a call tagged with exactly one engine
\* function, the same whatever the arguments and the same for a name that is
\* both a constructor and a window name; the names that share that engine
\* function are the name alone, or, for the five scalar functions registered
\* under several names, exactly the names of that alias group.
C10_OneIdentifierPerName ==
    IsFunctionCall =>
        LET tag == Ident(last.out.res.val.expr)
            same == {M \in AllNames : tag \in IdentsOf(M)}
        IN  /\ last.fn \in Range(Registered)
            /\ IdentsOf(CalledName) = {tag}
            /\ IF \E g \in AliasGroups : CalledName \in g[2]
               THEN \E g \in AliasGroups :
                       /\ CalledName \in g[2]
                       /\ tag = <<"ScalarFunction", g[1]>>
                       /\ same = g[2]
               ELSE same = {CalledName}

\* length called with an argument: tagged CharacterLength, as
\* character_length is
C10_Witness ==
    /\ last.fn = "length"
    /\ last.args[1] # <<>>
    /\ Ident(last.out.res.val.expr) = <<"ScalarFunction", "CharacterLength">>
    /\ IdentsOf("character_length") = {<<"ScalarFunction", "CharacterLength">>}

\* C11: order_by(expr, asc, nulls_first) returns a Sort node over exactly
\* expr, ascending as asc says and true when asc is omitted, nulls first as
\* nulls_first says and true when it is omitted; neither default looks at the
\* other option.
C11_OrderByDefaults ==
    last.fn = "order_by" =>
        LET expr == last.args[1]
            asc == last.args[2]
            nulls_first == last.args[3]
        IN  /\ last.out.res.ok
            /\ last.out.res.val.expr =
                  [e |-> "Sort", expr |-> expr.expr,
                   asc |-> IF asc = <<>> THEN TRUE ELSE asc[1],
                   nulls_first |-> IF nulls_first = <<>> THEN TRUE ELSE nulls_first[1]]

\* descending given, nulls-first omitted: descending, nulls first
C11_Witness ==
    /\ last.fn = "order_by"
    /\ last.args[2] = <<FALSE>> /\ last.args[3] = <<>>
    /\ last.out.res.ok
    /\ ~last.out.res.val.expr.asc
    /\ last.out.res.val.expr.nulls_first

\* C12: for a name that is a window function, window returns a
\* WindowFunction node with the arguments, the partition keys and the order
\* keys as given and in order, an omitted partition_by or order_by counting
\* as the empty list; and its frame is the frame of every call that carries
\* the same order keys, an omitted order_by and an empty one included.
C12_SameKeysSameFrame ==
    (last.fn = "window" /\ find_df_window_func(last.args[1]) # <<>>) =>
        LET name == last.args[1]
            args == last.args[2]
            partition_by == last.args[3]
            order_by_arg == last.args[4]
            keys(o) == IF o = <<>> THEN <<>> ELSE o[1]
            node == last.out.res.val.expr
        IN  /\ last.out.res.ok
            /\ node.e = "WindowFunction"
            /\ node.args = [i \in DOMAIN args |-> args[i].expr]
            /\ node.partition_by =
                  [i \in DOMAIN keys(partition_by) |-> keys(partition_by)[i].expr]
            /\ node.order_by =
                  [i \in DOMAIN keys(order_by_arg) |-> keys(order_by_arg)[i].expr]
            /\ \A o \in OrderLists :
                  keys(o) = keys(order_by_arg) =>
                      window(name, args, partition_by, o).val.expr.window_frame
                          = node.window_frame

====
